---- MODULE Spec2Model ----
(***************************************************************************)
(* A model of ai_terminal_tool.py: the credential store (ConfigManager),   *)
(* the dispatch client (AIClient) and the presentation shell               *)
(* (AITerminalApp).                                                        *)
(*                                                                         *)
(* Python values are modelled as follows.                                  *)
(*   - None is the string NONE; a str is a TLA+ string.                    *)
(*   - A dict is a sequence of <<key, value>> pairs with distinct keys, in *)
(*     insertion order.                                                    *)
(*   - self.config, the value json.load returns, is a record               *)
(*       [t  |-> "dict" | "array",     the top-level JSON value            *)
(*        ak |-> "absent" | "dict" | "null",  config['api_keys']           *)
(*        d  |-> the api_keys dict]                                        *)
(*     "array" stands for every JSON value that is not an object, "null"   *)
(*     for every api_keys value that is not an object: on each of them     *)
(*     .get and item assignment raise.                                     *)
(*   - The configuration file is [kind |-> "missing" | "invalid_json" |    *)
(*     "invalid_utf8" | "json", t, ak, members]; members is the text's     *)
(*     sequence of "key": value members, where a key may be repeated.      *)
(*                                                                         *)
(* Specifications.                                                         *)
(*   SpecStore     ConfigManager constructed and called directly.          *)
(*   SpecDispatch  AIClient.get_response called directly, over a store     *)
(*                 constructed from each initial file.                     *)
(*   Spec          AITerminalApp as written: the coroutine object that     *)
(*                 action_send_message creates at line 361 is never        *)
(*                 awaited, so the body of process_message does not run.   *)
(*   FairSpec      Spec, with every pending event of the user handled.     *)
(*   SpecAwaited   AITerminalApp with those coroutine objects run by the   *)
(*                 event loop, each suspended while its get_response is    *)
(*                 awaited.                                                *)
(***************************************************************************)
EXTENDS Integers, Sequences, FiniteSets, TLC

VARIABLES
    file,               \* ~/.ai-terminal-tool/config.json
    store,              \* "none" before ConfigManager(), then "ready", or
                        \* "init_raised" when ConfigManager() raised
    config,             \* ConfigManager.config
    expect,             \* history: provider -> the secret last set for it, or
                        \* what the last construction loaded for it
    persisted,          \* history: "no_set" since the last construction, "all" when
                        \* every set_api_key since then wrote the file, else "not_all"
    last,               \* history: the last call made on the store
    libs,               \* the optional client libraries that imported
    call,               \* a get_response call made by a caller of AIClient
    selected_provider,  \* AITerminalApp.selected_provider
    selected_model,     \* AITerminalApp.selected_model
    message_input,      \* #message_input.text
    api_key_input,      \* #api_key_input.value
    status_text,        \* #status_text
    status_info,        \* #status_info
    output_area,        \* #output_area.markdown, newest segment first
    loading,            \* #loading.visible
    coroutines,         \* process_message coroutine objects created, not run
    tasks,              \* process_message coroutines suspended in their await
    handler             \* history: the last handler, when it is save_api_key, with
                        \* the key it saved and what the disk did

storeVars == <<file, store, config, expect, persisted, last>>
callVars  == <<libs, call>>
shellVars == <<selected_provider, selected_model, message_input, api_key_input,
               status_text, status_info, output_area, loading, coroutines,
               tasks, handler>>
vars == <<storeVars, callVars, shellVars>>

NONE == "<None>"

----------------------------------------------------------------------------
(* Bounds of the model.                                                    *)

\* process_message coroutine objects the shell may have created and not run
MaxCoroutines == 2
\* chat turns, shown or on their way, after which the model sends no more
MaxTurns == 2

----------------------------------------------------------------------------
(* str.lower and str.strip on the strings the model uses.                  *)

Lower(s) ==
    CASE s = "OpenAI"       -> "openai"
      [] s = "OPENAI"       -> "openai"
      [] s = "Claude"       -> "claude"
      [] s = "Gemini"       -> "gemini"
      [] s = "Perplexity"   -> "perplexity"
      [] s = "DoesNotExist" -> "doesnotexist"
      [] OTHER              -> s

Strip(s) ==
    CASE s = "  "   -> ""
      [] s = " hi " -> "hi"
      [] s = " sk-1 " -> "sk-1"
      [] OTHER      -> s

----------------------------------------------------------------------------
(* dict                                                                    *)

DictHas(d, k) == \E i \in 1..Len(d) : d[i][1] = k

\* d.get(k)
DictGet(d, k) ==
    IF DictHas(d, k)
    THEN d[CHOOSE i \in 1..Len(d) : d[i][1] = k][2]
    ELSE NONE

\* d[k] = v
DictSet(d, k, v) ==
    IF DictHas(d, k)
    THEN [i \in 1..Len(d) |-> IF d[i][1] = k THEN <<k, v>> ELSE d[i]]
    ELSE Append(d, <<k, v>>)

\* the dict an object's members decode to: a repeated key keeps its first
\* position and takes its last value
RECURSIVE DictOf(_)
DictOf(members) ==
    IF members = <<>> THEN <<>>
    ELSE LET n == Len(members)
         IN  DictSet(DictOf(SubSeq(members, 1, n - 1)),
                     members[n][1], members[n][2])

----------------------------------------------------------------------------
(* ConfigManager                                                           *)

EmptyConfig == [t |-> "dict", ak |-> "absent", d |-> <<>>]

MissingFile == [kind |-> "missing", t |-> "dict", ak |-> "absent", members |-> <<>>]

\* json.load(f) on a file that holds JSON text
JsonLoad(f) ==
    [t |-> f.t,
     ak |-> IF f.t = "dict" THEN f.ak ELSE "absent",
     d |-> IF f.t = "dict" /\ f.ak = "dict" THEN DictOf(f.members) ELSE <<>>]

JsonDumpDropsLast(c) ==
    [kind |-> "json", t |-> c.t, ak |-> c.ak,
     members |-> IF c.d = <<>> THEN <<>> ELSE SubSeq(c.d, 1, Len(c.d) - 1)]

\* the text json.dump(self.config, f, indent=2) writes
JsonDump(c) ==
    [kind |-> "json", t |-> c.t, ak |-> c.ak, members |-> c.d]

\* load_config: io is "ok" or "ioerror" (open or read fails with an OSError).
\* [raised, value]: UnicodeDecodeError is a ValueError that is neither a
\* JSONDecodeError nor an IOError, so it leaves load_config.
load_config(f, io) ==
    IF f.kind = "missing" THEN [raised |-> FALSE, value |-> EmptyConfig]
    ELSE IF io = "ioerror" THEN [raised |-> FALSE, value |-> EmptyConfig]
    ELSE IF f.kind = "invalid_json" THEN [raised |-> FALSE, value |-> EmptyConfig]
    ELSE IF f.kind = "invalid_utf8" THEN [raised |-> TRUE, value |-> EmptyConfig]
    ELSE [raised |-> FALSE, value |-> JsonLoad(f)]

\* save_config: the file after the write, by what the disk does.  "open_fails"
\* leaves the file as it was, "write_fails" leaves it truncated; both are
\* IOErrors, which save_config swallows.
save_config(c, f, disk) ==
    CASE disk = "ok"          -> JsonDump(c)
      [] disk = "open_fails"  -> f
      [] disk = "write_fails" ->
            [kind |-> "invalid_json", t |-> "dict", ak |-> "absent", members |-> <<>>]

\* get_api_key: [raised, value]
get_api_key(c, provider) ==
    IF c.t # "dict" THEN [raised |-> TRUE, value |-> NONE]
    ELSE IF c.ak = "absent" THEN [raised |-> FALSE, value |-> NONE]
    ELSE IF c.ak = "null" THEN [raised |-> TRUE, value |-> NONE]
    ELSE [raised |-> FALSE, value |-> DictGet(c.d, provider)]

\* set_api_key up to its call of save_config: [raised, value]
AssignApiKey(c, provider, api_key) ==
    IF c.t # "dict" THEN [raised |-> TRUE, value |-> c]
    ELSE IF c.ak = "null" THEN [raised |-> TRUE, value |-> c]
    ELSE [raised |-> FALSE,
          value |-> [t |-> "dict", ak |-> "dict",
                     d |-> DictSet(IF c.ak = "absent" THEN <<>> ELSE c.d,
                                   provider, api_key)]]

----------------------------------------------------------------------------
(* The provider registry of AIClient.__init__ and what its callers pass.   *)

Registry == {"OpenAI", "Claude", "Gemini", "Perplexity"}

Models(p) ==
    CASE p = "OpenAI"     -> <<"gpt-4o", "gpt-4o-mini", "gpt-3.5-turbo">>
      [] p = "Claude"     -> <<"claude-3-5-sonnet-20241022", "claude-3-5-haiku-20241022",
                               "claude-3-opus-20240229">>
      [] p = "Gemini"     -> <<"gemini-2.0-flash-exp", "gemini-1.5-pro", "gemini-1.5-flash">>
      [] p = "Perplexity" -> <<"llama-3.1-sonar-small-128k-online",
                               "llama-3.1-sonar-large-128k-online">>

\* the library each adapter needs
Library(p) ==
    CASE p = "OpenAI"     -> "openai"
      [] p = "Claude"     -> "anthropic"
      [] p = "Gemini"     -> "genai"
      [] p = "Perplexity" -> "requests"

\* provider ids a caller of the store passes
StoreIds == {"OpenAI", "openai", "claude"}
\* the keys the history variable follows
StoreKeys == StoreIds \cup {"doesnotexist"}
\* secrets a caller of the store passes
Secrets == {"sk-1", "sk-2"}
\* what the disk does on a write, and on a read
DiskOutcomes == {"ok", "open_fails", "write_fails"}
ReadOutcomes == {"ok", "ioerror"}

JsonFile(t, ak, members) == [kind |-> "json", t |-> t, ak |-> ak, members |-> members]

\* configuration files the program may find when it starts
InitFiles ==
    { MissingFile,
      [kind |-> "invalid_json", t |-> "dict", ak |-> "absent", members |-> <<>>],
      [kind |-> "invalid_utf8", t |-> "dict", ak |-> "absent", members |-> <<>>],
      JsonFile("array", "absent", <<>>),
      JsonFile("dict", "absent", <<>>),
      JsonFile("dict", "null", <<>>),
      JsonFile("dict", "dict", <<>>),
      JsonFile("dict", "dict", << <<"openai", "sk-1">> >>),
      JsonFile("dict", "dict", << <<"openai", "">> >>),
      JsonFile("dict", "dict", << <<"openai", "sk-1">>, <<"openai", "sk-2">> >>),
      JsonFile("dict", "dict", << <<"doesnotexist", "sk-1">> >>),
      JsonFile("dict", "dict", << <<"openai", "sk-1">>, <<"claude", "sk-1">>,
                                  <<"gemini", "sk-1">>, <<"perplexity", "sk-1">> >>) }

\* what a lookup that does not raise returns, NONE when it raises
Lookup(c, k) == IF get_api_key(c, k).raised THEN NONE ELSE get_api_key(c, k).value

----------------------------------------------------------------------------
(* Initial values.                                                         *)

NoCall == [pc |-> "idle", provider |-> NONE, model |-> NONE, api_key |-> NONE,
           result |-> <<NONE, NONE>>, transport |-> 0]

NoLast == [op |-> "none", provider |-> NONE, secret |-> NONE, io |-> NONE,
           raised |-> FALSE, value |-> NONE]

\* A segment of the output area's markdown: the welcome text, the text
\* "Conversation cleared.", a chat turn "**You:** .. **label:** response", or
\* the "**Error:** .." text of process_message's except branch.
\* dispatched is history: the provider passed to get_response for the turn.
Seg(kind, you, label, response, dispatched) ==
    [kind |-> kind, you |-> you, label |-> label, response |-> response,
     dispatched |-> dispatched]

Welcome == Seg("welcome", NONE, NONE, <<NONE, NONE>>, NONE)
Cleared == Seg("cleared", NONE, NONE, <<NONE, NONE>>, NONE)

\* has_key and the text of update_status_info
StatusInfo(c, provider, model) ==
    [provider |-> provider, model |-> model,
     has_key |-> LET r == get_api_key(c, Lower(provider))
                 IN  ~r.raised /\ r.value \notin {NONE, ""}]

\* the widgets after compose and on_mount
ShellStart(c) ==
    /\ selected_provider = "OpenAI"
    /\ selected_model = "gpt-4o"
    /\ message_input = ""
    /\ api_key_input = ""
    /\ status_text = <<"Ready", NONE>>
    /\ status_info = StatusInfo(c, "OpenAI", "gpt-4o")
    /\ output_area = <<Welcome>>
    /\ loading = FALSE
    /\ coroutines = <<>>
    /\ tasks = <<>>
    /\ handler = [name |-> "other", disk |-> NONE, key |-> NONE]

----------------------------------------------------------------------------
(* The credential store, called directly.                                  *)

\* ConfigManager(): a fresh instance over the file.  The mkdir of line 60 is
\* taken to succeed.
Construct(io) ==
    LET r == load_config(file, io)
    IN  /\ store' = IF r.raised THEN "init_raised" ELSE "ready"
        /\ config' = r.value
        /\ expect' = [k \in StoreKeys |-> IF r.raised THEN NONE
                                          ELSE Lookup(r.value, k)]
        /\ persisted' = "no_set"
        /\ last' = [NoLast EXCEPT !.op = "init", !.io = io, !.raised = r.raised]
        /\ UNCHANGED <<file, callVars, shellVars>>

StoreGet(provider) ==
    /\ store = "ready"
    /\ LET r == get_api_key(config, provider)
       IN  last' = [NoLast EXCEPT !.op = "get", !.provider = provider,
                                  !.raised = r.raised, !.value = r.value]
    /\ UNCHANGED <<file, store, config, expect, persisted,
                   callVars, shellVars>>

\* set_api_key: the assignment, then save_config
StoreSet(provider, api_key, disk) ==
    /\ store = "ready"
    /\ LET r == AssignApiKey(config, provider, api_key)
       IN  /\ config' = r.value
           /\ file' = IF r.raised THEN file ELSE save_config(r.value, file, disk)
           /\ expect' = IF r.raised THEN expect ELSE [expect EXCEPT ![provider] = api_key]
           /\ persisted' = IF persisted # "not_all" /\ ~r.raised /\ disk = "ok"
                           THEN "all" ELSE "not_all"
           /\ last' = [NoLast EXCEPT !.op = "set", !.provider = provider,
                                     !.secret = api_key, !.raised = r.raised]
    /\ UNCHANGED <<store, callVars, shellVars>>

InitStore ==
    /\ file \in InitFiles
    /\ store = "none"
    /\ config = EmptyConfig
    /\ expect = [k \in StoreKeys |-> NONE]
    /\ persisted = "no_set"
    /\ last = NoLast
    /\ libs = {}
    /\ call = NoCall
    /\ ShellStart(EmptyConfig)

NextStore ==
    \/ \E io \in ReadOutcomes : Construct(io)
    \/ \E p \in StoreIds : StoreGet(p)
    \/ \E p \in StoreIds, s \in Secrets, disk \in DiskOutcomes : StoreSet(p, s, disk)

SpecStore == InitStore /\ [][NextStore]_vars

----------------------------------------------------------------------------
(* AIClient.get_response, called directly.                                 *)

NoApiKey    == "Error: No API key configured for"
Unsupported == "Error: Unsupported provider"
NotInstalled == "Error: library not installed"
ErrorStr    == "Error: str(e)"
ErrorStatus == "Error: status_code - text"
Text        == "text"

AllLibs == {"openai", "anthropic", "genai", "requests"}
\* provider ids and models a caller of get_response passes
DispatchIds == Registry \cup {"openai", "DoesNotExist"}
DispatchModels == {"gpt-4o", "no-such-model"}
\* what the call run by asyncio.to_thread does: it returns a well-formed
\* response, raises (connection failure, an SDK's error for a status that is
\* not a success), returns a response without the fields read from it, or,
\* for requests.post, returns a response whose status is not 200
TransportOutcomes == {"reply", "raises", "malformed", "status_429"}

\* get_response when only None counts as no key
GetResponseStartNoneOnly(c, installed, provider) ==
    LET r == get_api_key(c, Lower(provider))
    IN  IF r.raised THEN [pc |-> "raised", api_key |-> NONE, result |-> <<NONE, NONE>>]
        ELSE IF r.value = NONE
        THEN [pc |-> "returned", api_key |-> r.value, result |-> <<NoApiKey, provider>>]
        ELSE IF provider \in Registry
        THEN IF Library(provider) \notin installed
             THEN [pc |-> "returned", api_key |-> r.value,
                   result |-> <<NotInstalled, Library(provider)>>]
             ELSE [pc |-> "awaiting", api_key |-> r.value, result |-> <<NONE, NONE>>]
        ELSE [pc |-> "returned", api_key |-> r.value, result |-> <<Unsupported, provider>>]

\* get_response up to its first suspension: the lookup of line 107 is outside
\* the try, so what it raises leaves get_response; then the key check, the
\* if/elif chain on the provider and the adapter's check of its library.
\* "awaiting" is the adapter suspended in asyncio.to_thread.
GetResponseStart(c, installed, provider) ==
    LET r == get_api_key(c, Lower(provider))
    IN  IF r.raised THEN [pc |-> "raised", api_key |-> NONE, result |-> <<NONE, NONE>>]
        ELSE IF r.value \in {NONE, ""}
        THEN [pc |-> "returned", api_key |-> r.value, result |-> <<NoApiKey, provider>>]
        ELSE IF provider \in Registry
        THEN IF Library(provider) \notin installed
             THEN [pc |-> "returned", api_key |-> r.value,
                   result |-> <<NotInstalled, Library(provider)>>]
             ELSE [pc |-> "awaiting", api_key |-> r.value, result |-> <<NONE, NONE>>]
        ELSE [pc |-> "returned", api_key |-> r.value, result |-> <<Unsupported, provider>>]

\* what get_response returns once the transport call has ended: every
\* exception of the adapter is caught at line 122
GetResponseEnd(provider, outcome) ==
    CASE outcome = "reply"      -> <<Text, provider>>
      [] outcome = "raises"     -> <<ErrorStr, "raised">>
      [] outcome = "malformed"  -> <<ErrorStr, "malformed">>
      [] outcome = "status_429" ->
            IF provider = "Perplexity" THEN <<ErrorStatus, "429">>
            ELSE <<ErrorStr, "raised">>

GetResponseCall(provider, model) ==
    /\ store = "ready"
    /\ call.pc # "awaiting"
    /\ LET r == GetResponseStart(config, libs, provider)
       IN  call' = [pc |-> r.pc, provider |-> provider, model |-> model,
                    api_key |-> r.api_key, result |-> r.result,
                    transport |-> IF r.pc = "awaiting" THEN 1 ELSE 0]
    /\ UNCHANGED <<storeVars, libs, shellVars>>

TransportDone(outcome) ==
    /\ call.pc = "awaiting"
    /\ call' = [call EXCEPT !.pc = "returned",
                            !.result = GetResponseEnd(call.provider, outcome)]
    /\ UNCHANGED <<storeVars, libs, shellVars>>

\* the client over a store constructed from the file
InitDispatch ==
    /\ file \in InitFiles
    /\ \E io \in ReadOutcomes :
          /\ ~load_config(file, io).raised
          /\ config = load_config(file, io).value
    /\ store = "ready"
    /\ expect = [k \in StoreKeys |-> Lookup(config, k)]
    /\ persisted = "no_set"
    /\ last = NoLast
    /\ libs \in SUBSET AllLibs
    /\ call = NoCall
    /\ ShellStart(config)

NextDispatch ==
    \/ \E p \in DispatchIds, m \in DispatchModels : GetResponseCall(p, m)
    \/ \E o \in TransportOutcomes : TransportDone(o)

SpecDispatch == InitDispatch /\ [][NextDispatch]_vars

----------------------------------------------------------------------------
(* AITerminalApp: the handlers, and what the user does to the widgets.     *)

\* providers the user selects, texts the user types
SelectedProviders == {"OpenAI", "Claude"}
MessageTexts == {" hi "}
ApiKeyTexts == {" sk-1 "}
\* what the transport does for a dispatch of the shell
ShellOutcomes == {"reply", "raises"}

Pending == Len(coroutines) + Len(tasks)

TurnCount(out) == Cardinality({i \in 1..Len(out) : out[i].kind \in {"turn", "error"}})

\* history kept of a handler other than save_api_key
Other == [name |-> "other", disk |-> NONE, key |-> NONE]

\* the user edits #message_input
EditMessage(text) ==
    /\ message_input # text
    /\ message_input' = text
    /\ UNCHANGED <<storeVars, callVars, selected_provider, selected_model,
                   api_key_input, status_text, status_info, output_area,
                   loading, coroutines, tasks, handler>>

\* the user edits #api_key_input
EditApiKey(text) ==
    /\ api_key_input # text
    /\ api_key_input' = text
    /\ UNCHANGED <<storeVars, callVars, selected_provider, selected_model,
                   message_input, status_text, status_info, output_area,
                   loading, coroutines, tasks, handler>>

\* on_select_changed for #provider_select
SelectProvider(value) ==
    /\ selected_provider' = value
    /\ selected_model' = IF Len(Models(value)) > 0 THEN Models(value)[1]
                         ELSE selected_model
    /\ status_info' = StatusInfo(config, selected_provider', selected_model')
    /\ handler' = Other
    /\ UNCHANGED <<storeVars, callVars, message_input, api_key_input,
                   status_text, output_area, loading, coroutines, tasks>>

\* on_select_changed for #model_select
SelectModel(value) ==
    /\ selected_model' = value
    /\ status_info' = StatusInfo(config, selected_provider, value)
    /\ handler' = Other
    /\ UNCHANGED <<storeVars, callVars, selected_provider, message_input,
                   api_key_input, status_text, output_area, loading,
                   coroutines, tasks>>

\* save_api_key, with set_api_key and its save_config
SaveApiKey(disk) ==
    LET key == Strip(api_key_input)
        r   == AssignApiKey(config, Lower(selected_provider), key)
    IN  IF key # ""
        THEN /\ ~r.raised
             /\ config' = r.value
             /\ file' = save_config(r.value, file, disk)
             /\ api_key_input' = ""
             /\ status_text' = <<"API key saved successfully!", NONE>>
             /\ status_info' = StatusInfo(config', selected_provider, selected_model)
             /\ handler' = [name |-> "save_api_key", disk |-> disk, key |-> key]
             /\ UNCHANGED <<store, expect, persisted, last, callVars,
                            selected_provider, selected_model, message_input,
                            output_area, loading, coroutines, tasks>>
        ELSE /\ disk = "ok"
             /\ status_text' = <<"Please enter an API key", NONE>>
             /\ handler' = [name |-> "save_api_key", disk |-> NONE, key |-> NONE]
             /\ UNCHANGED <<storeVars, callVars, selected_provider, selected_model,
                            message_input, api_key_input, status_info,
                            output_area, loading, coroutines, tasks>>

\* action_send_message.  Line 361 calls the coroutine function
\* process_message and drops the coroutine object it returns: nothing
\* awaits or schedules it.
SendMessage ==
    LET message == Strip(message_input)
        key     == get_api_key(config, Lower(selected_provider))
    IN  /\ handler' = Other
        /\ IF message = ""
           THEN /\ status_text' = <<"Please enter a message", NONE>>
                /\ UNCHANGED <<message_input, coroutines>>
           ELSE IF key.value \in {NONE, ""}
           THEN /\ status_text' = <<"Please enter and save your API key first", NONE>>
                /\ UNCHANGED <<message_input, coroutines>>
           ELSE /\ Pending < MaxCoroutines
                /\ TurnCount(output_area) + Pending < MaxTurns
                /\ message_input' = ""
                /\ coroutines' = Append(coroutines, [message |-> message])
                /\ UNCHANGED status_text
        /\ UNCHANGED <<storeVars, callVars, selected_provider, selected_model,
                       api_key_input, status_info, output_area, loading, tasks>>

\* action_clear_output
ClearOutput ==
    /\ output_area' = <<Cleared>>
    /\ status_text' = <<"Conversation cleared", NONE>>
    /\ handler' = Other
    /\ UNCHANGED <<storeVars, callVars, selected_provider, selected_model,
                   message_input, api_key_input, status_info, loading,
                   coroutines, tasks>>

\* lines 381-386: the turn replaces the welcome text, or goes in front
UpdateOutput(out, turn) ==
    IF out = <<Welcome>> THEN <<turn>> ELSE <<turn>> \o out

\* configuration files the application starts over: none, or the one an
\* earlier session saved
ShellInitFiles ==
    { MissingFile, JsonFile("dict", "dict", << <<"openai", "sk-1">> >>) }

\* the application after construction and on_mount; update_status_info
\* there reads the key, so the store is one whose lookup does not raise
InitShell ==
    /\ file \in ShellInitFiles
    /\ \E io \in ReadOutcomes :
          /\ ~load_config(file, io).raised
          /\ config = load_config(file, io).value
    /\ ~get_api_key(config, "openai").raised
    /\ store = "ready"
    /\ expect = [k \in StoreKeys |-> Lookup(config, k)]
    /\ persisted = "no_set"
    /\ last = NoLast
    /\ libs \in {AllLibs, AllLibs \ {"openai"}}
    /\ call = NoCall
    /\ ShellStart(config)

NextShell ==
    \/ \E t \in MessageTexts : EditMessage(t)
    \/ \E t \in ApiKeyTexts : EditApiKey(t)
    \/ \E p \in SelectedProviders : SelectProvider(p)
    \/ \E i \in 1..2 : SelectModel(Models(selected_provider)[i])
    \/ \E disk \in DiskOutcomes : SaveApiKey(disk)
    \/ SendMessage
    \/ ClearOutput

\* process_message from its first line to the await of line 374, for a
\* coroutine object that is run.  get_response runs to its own first
\* suspension within the same step; when it returns or raises without
\* suspending, the rest of process_message runs too.
ProcessMessageStart ==
    /\ coroutines # <<>>
    /\ LET co == Head(coroutines)
           r  == GetResponseStart(config, libs, selected_provider)
           turn == Seg("turn", co.message, selected_provider, r.result,
                       selected_provider)
           err  == Seg("error", NONE, NONE, <<ErrorStr, "raised">>, NONE)
       IN  /\ coroutines' = Tail(coroutines)
           /\ CASE r.pc = "awaiting" ->
                     /\ loading' = TRUE
                     /\ status_text' = <<"Sending to", selected_provider>>
                     /\ tasks' = Append(tasks, [message |-> co.message,
                                                provider |-> selected_provider])
                     /\ UNCHANGED output_area
                [] r.pc = "returned" ->
                     /\ loading' = FALSE
                     /\ status_text' = <<"Response received!", NONE>>
                     /\ output_area' = UpdateOutput(output_area, turn)
                     /\ UNCHANGED tasks
                [] r.pc = "raised" ->
                     /\ loading' = FALSE
                     /\ status_text' = <<ErrorStr, "raised">>
                     /\ output_area' = <<err>> \o output_area
                     /\ UNCHANGED tasks
    /\ handler' = Other
    /\ UNCHANGED <<storeVars, callVars, selected_provider, selected_model,
                   message_input, api_key_input, status_info>>

\* process_message from the completion of the awaited get_response to its
\* end: lines 381-388 and the finally of line 395.  The label of the turn
\* is self.selected_provider as it is now.
ProcessMessageResume(i, outcome) ==
    /\ i \in 1..Len(tasks)
    /\ LET t == tasks[i]
           turn == Seg("turn", t.message, selected_provider,
                       GetResponseEnd(t.provider, outcome), t.provider)
       IN  /\ output_area' = UpdateOutput(output_area, turn)
           /\ tasks' = [j \in 1..(Len(tasks) - 1) |->
                            IF j < i THEN tasks[j] ELSE tasks[j + 1]]
    /\ status_text' = <<"Response received!", NONE>>
    /\ loading' = FALSE
    /\ handler' = Other
    /\ UNCHANGED <<storeVars, callVars, selected_provider, selected_model,
                   message_input, api_key_input, status_info, coroutines>>

NextAwaited ==
    \/ NextShell
    \/ ProcessMessageStart
    \/ \E i \in 1..MaxCoroutines, o \in ShellOutcomes : ProcessMessageResume(i, o)

\* the program with the coroutine objects of line 361 run by the event loop
SpecAwaited == InitShell /\ [][NextAwaited]_vars

\* the program as written
Spec == InitShell /\ [][NextShell]_vars

\* the program as written, with every pending event of the user handled
FairSpec == Spec /\ WF_vars(NextShell)

----------------------------------------------------------------------------
(* Claims about the credential store, checked under SpecStore.             *)

Returned(v) == [raised |-> FALSE, value |-> v]

\* the file holds data that is not a configuration: text that is no JSON,
\* bytes that are no text, or JSON of another shape
Malformed(f) ==
    \/ f.kind \in {"invalid_json", "invalid_utf8"}
    \/ f.kind = "json" /\ (f.t # "dict" \/ f.ak = "null")

\* get returns absent for every provider, and set(P, S) then get(P) returns S
EmptyButFunctional(c) ==
    \A p \in StoreIds :
        /\ get_api_key(c, p) = Returned(NONE)
        /\ \A s \in Secrets :
              LET r == AssignApiKey(c, p, s)
              IN  ~r.raised /\ get_api_key(r.value, p) = Returned(s)

\* C4: constructing the store over a missing, unreadable or malformed file
\* does not raise and gives an empty store on which get returns absent for
\* every provider and set then get returns the secret.
C4_ConstructNeverFails ==
    (last.op = "init" /\ (file.kind = "missing" \/ last.io = "ioerror" \/ Malformed(file)))
        => (store = "ready" /\ EmptyButFunctional(config))

\* C5: once every set_api_key since construction has written the file, a
\* fresh store that reads the file returns, for every provider, the secret
\* last set for it, and for a provider never set what the store started
\* with (absent when it started empty).
C5_RoundTrip ==
    persisted = "all" =>
        LET fresh == load_config(file, "ok")
        IN  /\ ~fresh.raised
            /\ \A k \in StoreKeys : get_api_key(fresh.value, k) = Returned(expect[k])

\* two providers set, one of them twice, and a provider never set
C5_Witness ==
    /\ persisted = "all"
    /\ expect["openai"] = "sk-2"
    /\ expect["claude"] = "sk-1"
    /\ expect["OpenAI"] = NONE
    /\ last.op = "set" /\ last.provider = "openai" /\ last.secret = "sk-2"
    /\ Len(config.d) = 2 /\ config.d[1] = <<"openai", "sk-2">>

\* C6: after set(a, S), get(b) returns S for every case variant b of a.
C6_CaseInsensitive ==
    (last.op = "set" /\ ~last.raised) =>
        \A b \in StoreIds :
            Lower(b) = Lower(last.provider)
                => get_api_key(config, b) = Returned(last.secret)

----------------------------------------------------------------------------
(* Claims about get_response, checked under SpecDispatch.                  *)

\* the store holds nothing, or the empty string, under key k
NoSecretStored(c, k) ==
    /\ c.t = "dict"
    /\ c.ak \in {"absent", "dict"}
    /\ \A i \in 1..Len(c.d) : c.d[i][1] = k => c.d[i][2] = ""

\* C1: a call for a registered provider whose secret is absent or empty
\* returns the no-key error, and no transport call has been made.
C1_MissingCredential ==
    (call.pc # "idle" /\ call.provider \in Registry
        /\ NoSecretStored(config, Lower(call.provider)))
    => (call.pc = "returned" /\ call.result = <<NoApiKey, call.provider>>
        /\ call.transport = 0)

\* the empty-string case
C1_Witness ==
    /\ call.pc = "returned" /\ call.provider = "OpenAI"
    /\ config.ak = "dict" /\ DictGet(config.d, "openai") = ""
    /\ call.result = <<NoApiKey, "OpenAI">>

\* C2: a call for an id that is no provider of the registry returns the
\* unsupported-provider error, whatever the store holds for it.
C2_UnknownProvider ==
    (call.pc = "returned" /\ \A p \in Registry : Lower(p) # Lower(call.provider))
    => call.result = <<Unsupported, call.provider>>

\* C3: get_response never raises.
C3_NeverRaises == call.pc # "raised"

----------------------------------------------------------------------------
(* Claims about the shell.                                                 *)

Saved == <<"API key saved successfully!", NONE>>

\* C7: when the write fails during save_api_key, the store in memory holds
\* the new secret and the status message does not report a successful save.
C7_PersistFailureReported ==
    (handler.name = "save_api_key" /\ handler.disk \in {"open_fails", "write_fails"})
    => (/\ get_api_key(config, Lower(selected_provider)) = Returned(handler.key)
        /\ status_text # Saved)

\* C8: a send that passed the checks of action_send_message leads to its chat
\* turn in the output area, with the loading indicator hidden.  Checked under
\* FairSpec, the program as written.
C8_SendCompletes ==
    (coroutines # <<>>) ~> (TurnCount(output_area) > 0 /\ ~loading)

====
